---- MODULE Spec2Model ----
(***************************************************************************)
(* Model of cloudflare_analytics.py: the hourly scheduling loop of main,   *)
(* the analytics fetch (get_last_30days_analytics) and the append-with-    *)
(* dedup engine (GoogleSheetHandler.append_daily_data) writing to a        *)
(* spreadsheet.                                                            *)
(*                                                                         *)
(* Strings are modelled by what they denote:                               *)
(*   [kind |-> "ymd",     day |-> d]   the text 'YYYY-MM-DD' of date d     *)
(*   [kind |-> "formula", day |-> d]   the text '=DATE(y, m, d)'           *)
(*   [kind |-> "locale",  day |-> d]   date d in the sheet's locale format *)
(*   [kind |-> "text",    day |-> 0]   the header caption of column A      *)
(* A sheet cell of column A is [type, day, fmt]: a text cell or a date     *)
(* value carrying a number format ("auto" or the pattern "ymd").           *)
(* Of the nine columns only the date (A) and the total-bytes column (G)    *)
(* are carried; the others are copied through by the code unchanged.       *)
(***************************************************************************)
EXTENDS Integers, Sequences, FiniteSets, TLC

VARIABLES
    pc,          \* position of main: start, gate, fetch, blocked, append, sleep, errsleep,
                 \* cfgsleep, exited
    day,         \* day-of-month of datetime.now()
    locale,      \* how the sheet renders a date cell with automatic format
    store,       \* the rows of the sheet range, top to bottom
    daily_data,  \* main's local daily_data (result of the fetch)
    fetched,     \* outcome of the last get_last_30days_analytics call
    call,        \* what the last append_daily_data call did
    trace,       \* per-wake bookkeeping: sleeps, cycles, seconds slept
    shown        \* the byte count last handed to format_bytes alone, and its text

vars == <<pc, day, locale, store, daily_data, fetched, call, trace, shown>>

\* ---------------------------------------------------------------- bounds
MaxDate == 3
DaysInMonth == 2
MaxRecs == 2
MaxFetch == 1
MaxRows == 3

Dates == 1..MaxDate
\* the provider's byte count for date d
Traffic(d) == 1024 * d + 512
\* marks a 'bytes' key absent from a day's sum object
Missing == -1

\* ---------------------------------------------------------------- strings
DateStr(d) == [kind |-> "ymd", day |-> d]
HeaderText == [kind |-> "text", day |-> 0]

\* ---------------------------------------------------------------- format_bytes
Units == <<"B", "KB", "MB", "GB", "TB">>

\* f"{v:.2f}" of the exact quotient num/den: hundredths, ties to even
Fmt2(num, den) ==
    LET q == (num * 100) \div den
        r == (num * 100) % den
    IN  IF 2 * r > den THEN q + 1
        ELSE IF 2 * r = den THEN q + (q % 2)
        ELSE q

\* 1024 ** k
RECURSIVE Pow1024(_)
Pow1024(k) == IF k = 0 THEN 1 ELSE 1024 * Pow1024(k - 1)

\* the comparison made inclusive
Below1024Inclusive(m, sh) ==
    IF sh >= 1 THEN m = 0 ELSE IF sh <= -3 THEN TRUE ELSE m <= Pow1024(1 - sh)

\* bytes_value < 1024.0 where bytes_value is m * 1024 ** sh (sh may be negative):
\* for sh <= -3 the right side exceeds every m the model carries
Below1024(m, sh) ==
    IF sh >= 1 THEN m = 0 ELSE IF sh <= -3 THEN TRUE ELSE m < Pow1024(1 - sh)

\* f"{bytes_value:.2f}" where bytes_value is m * 1024 ** sh
Fmt2Scaled(m, sh) ==
    IF m = 0 THEN 0
    ELSE IF sh >= 0 THEN Fmt2(m * Pow1024(sh), 1)
    ELSE Fmt2(m, Pow1024(-sh))

\* the loop over the units: bytes_value is m * 1024 ** sh, and bytes_value /= 1024.0
\* lowers sh by one
RECURSIVE FormatLoop(_, _, _)
FormatLoop(m, sh, i) ==
    IF i > Len(Units) THEN [val |-> Fmt2Scaled(m, sh), unit |-> "PB"]
    ELSE IF Below1024(m, sh) THEN [val |-> Fmt2Scaled(m, sh), unit |-> Units[i]]
    ELSE FormatLoop(m, sh - 1, i + 1)

\* format_bytes(m * 1024 ** e), for byte counts beyond the machine integer
format_bytes_scaled(m, e) == FormatLoop(m, e, 1)

format_bytes(bytes_value) == FormatLoop(bytes_value, 0, 1)

\* ---------------------------------------------------------------- sorting
RECURSIVE InsertBy(_, _, _)
InsertBy(x, s, desc) ==
    IF s = <<>> THEN <<x>>
    ELSE IF (IF desc THEN x.date.day > Head(s).date.day
                          ELSE x.date.day < Head(s).date.day)
         THEN <<x>> \o s
         ELSE <<Head(s)>> \o InsertBy(x, Tail(s), desc)

\* the sort dropped: the list stays in the order given
SortDropped(s, desc) == s

\* list.sort(key=date, reverse=desc): stable, equal keys keep their order
RECURSIVE SortBy(_, _)
SortBy(s, desc) ==
    IF s = <<>> THEN <<>>
    ELSE InsertBy(s[Len(s)], SortBy(SubSeq(s, 1, Len(s) - 1), desc), desc)

\* ---------------------------------------------------------------- the sheet
headers == [a |-> HeaderText, total |-> [val |-> 0, unit |-> "hdr"]]

\* valueInputOption USER_ENTERED: a formula or a typed date becomes a date value
UserEntered(s) ==
    IF s.kind = "formula" THEN [type |-> "date", day |-> s.day, fmt |-> "auto"]
    ELSE IF s.kind = "ymd" THEN [type |-> "date", day |-> s.day, fmt |-> "ymd"]
    ELSE [type |-> "text", day |-> 0, fmt |-> "auto"]

\* values().get returns each cell as displayed: a date under the pattern
\* yyyy-mm-dd reads as 'YYYY-MM-DD'; under the automatic format it reads in the
\* locale of the spreadsheet, which may or may not be that form
Render(c) ==
    IF c.type = "text" THEN HeaderText
    ELSE IF c.fmt = "ymd" \/ locale = "ymd" THEN DateStr(c.day)
    ELSE [kind |-> "locale", day |-> c.day]

StoreRow(r) == [a |-> UserEntered(r.a), total |-> r.total]
ReadRow(r) == [a |-> Render(r.a), total |-> r.total]

\* the rows put above the first row of the range
SheetPrepend(s, rows) == [i \in 1..Len(rows) |-> StoreRow(rows[i])] \o s

\* values().append: the rows go below the last row of the range
SheetAppend(s, rows) == s \o [i \in 1..Len(rows) |-> StoreRow(rows[i])]

\* repeatCell on column A from startRowIndex 1: every row but the first
SheetDateFormat(s) ==
    [i \in 1..Len(s) |->
        IF i > 1 /\ s[i].a.type = "date" THEN [s[i] EXCEPT !.a.fmt = "ymd"] ELSE s[i]]

\* the dates held by rows of the sheet that are not the header row
IsData(r) == r.a.type = "date"
NoDupDates(s) ==
    \A i, j \in 1..Len(s) :
        (i # j /\ IsData(s[i]) /\ IsData(s[j])) => s[i].a.day # s[j].a.day

\* ---------------------------------------------------------------- ConfigHandler
ConfigStates == {"ok", "nofile", "badjson", "nosection", "nofield", "emptyfield"}

\* TRUE when ConfigHandler(config_path) returns, FALSE when it raises
load_config(cfg) == cfg = "ok"

\* ---------------------------------------------------------------- the fetch
DistinctDates(s) == \A i, j \in 1..Len(s) : i # j => s[i].date # s[j].date

SeqsUpTo(S, n) == UNION {[1..k -> S] : k \in 0..n}

\* httpRequests1dGroups: one group per date, in the provider's order
\* (the zone of the loop serves no bytes: the count is 0, or the key is absent)
DayGroups == [date : Dates, bytes : {0, Missing}]
Groups == {g \in SeqsUpTo(DayGroups, MaxFetch) : g # <<>> /\ DistinctDates(g)}

\* a response in full: the POST returned, status 200, no errors, zones present,
\* the key httpRequests1dGroups present, every group with its dimensions, sum
\* and uniq objects
OkShape ==
    [sent |-> TRUE, status |-> 200, errors |-> FALSE, zones |-> TRUE,
     hasGroups |-> TRUE, dims |-> TRUE, sums |-> TRUE, uniqs |-> TRUE,
     groups |-> <<>>]

\* what the provider can answer: a full response, or one deviating in one respect
Responses ==
    {[OkShape EXCEPT !.groups = g] : g \in Groups}
    \cup {[OkShape EXCEPT !.dims = FALSE, !.groups = g] : g \in Groups}
    \cup {[OkShape EXCEPT !.sums = FALSE, !.groups = g] : g \in Groups}
    \cup {[OkShape EXCEPT !.uniqs = FALSE, !.groups = g] : g \in Groups}
    \cup {[OkShape EXCEPT !.sent = FALSE],
          [OkShape EXCEPT !.status = 500],
          [OkShape EXCEPT !.status = 204],
          [OkShape EXCEPT !.errors = TRUE],
          [OkShape EXCEPT !.zones = FALSE],
          [OkShape EXCEPT !.hasGroups = FALSE],
          OkShape}

\* sum_data.get('bytes', 0)
daily_record(g) ==
    [date |-> DateStr(g.date), bytes |-> IF g.bytes = Missing THEN 0 ELSE g.bytes]

\* the expected nested field a response lacks, outermost first
MissingField(resp) ==
    IF ~resp.zones THEN "zones"
    ELSE IF ~resp.hasGroups THEN "groups"
    ELSE IF ~resp.dims THEN "dimensions"
    ELSE IF ~resp.sums THEN "sum"
    ELSE IF ~resp.uniqs THEN "uniq"
    ELSE IF \E i \in 1..Len(resp.groups) : resp.groups[i].bytes = Missing THEN "metric"
    ELSE "none"

\* the check of the errors list dropped
get_analytics_ignoring_errors(resp) ==
    IF ~resp.sent THEN [out |-> "raise", data |-> <<>>]
    ELSE IF resp.status # 200 THEN [out |-> "raise", data |-> <<>>]
    ELSE IF ~resp.zones THEN [out |-> "raise", data |-> <<>>]
    ELSE IF ~resp.hasGroups \/ resp.groups = <<>> THEN [out |-> "None", data |-> <<>>]
    ELSE IF ~resp.dims \/ ~resp.sums \/ ~resp.uniqs THEN [out |-> "raise", data |-> <<>>]
    ELSE [out |-> "data",
          data |-> SortBy([i \in 1..Len(resp.groups) |-> daily_record(resp.groups[i])],
                          TRUE)]

\* [out, data]: out is "raise", "None" or "data"
get_last_30days_analytics(resp) ==
    IF ~resp.sent THEN [out |-> "raise", data |-> <<>>]
    ELSE IF resp.status # 200 THEN [out |-> "raise", data |-> <<>>]
    ELSE IF resp.errors THEN [out |-> "raise", data |-> <<>>]
    ELSE IF ~resp.zones THEN [out |-> "raise", data |-> <<>>]
    ELSE IF ~resp.hasGroups \/ resp.groups = <<>> THEN [out |-> "None", data |-> <<>>]
    ELSE IF ~resp.dims \/ ~resp.sums \/ ~resp.uniqs THEN [out |-> "raise", data |-> <<>>]
    ELSE [out |-> "data",
          data |-> SortBy([i \in 1..Len(resp.groups) |-> daily_record(resp.groups[i])],
                          TRUE)]

\* ---------------------------------------------------------------- append_daily_data
\* the result of get_sheet_id: None, or the sheet's id
NoSheetId == [none |-> TRUE, id |-> 0]
Lookups == {"error", "absent", "first", "other"}

get_sheet_id(lookup) ==
    IF lookup = "error" THEN NoSheetId
    ELSE IF lookup = "absent" THEN NoSheetId
    ELSE IF lookup = "first" THEN [none |-> FALSE, id |-> 0]
    ELSE [none |-> FALSE, id |-> 7]

\* Python truth value of a sheet id
Truthy(sid) == ~sid.none /\ sid.id # 0

\* a failed read answered with the rows of the sheet all the same
get_existing_data_stale(s, readOk) == [i \in 1..Len(s) |-> ReadRow(s[i])]

get_existing_data(s, readOk) ==
    IF readOk THEN [i \in 1..Len(s) |-> ReadRow(s[i])] ELSE <<>>

ExistingDates(existing) ==
    LET existing_data == IF existing = <<>> THEN <<headers>> ELSE existing
    IN  IF Len(existing_data) > 1
        THEN {existing_data[i].a : i \in 2..Len(existing_data)}
        ELSE {}

\* strptime of the record's date, then f"=DATE({y}, {m}, {d})"
formatted_date(date) == [kind |-> "formula", day |-> date.day]

NewRow(rec) == [a |-> formatted_date(rec.date), total |-> format_bytes(rec.bytes)]

\* the membership test dropped: every record counts as new
IsNewAlways(rec, existing_dates) == TRUE

IsNew(rec, existing_dates) == rec.date \notin existing_dates

NewRows(sorted, existing_dates) ==
    LET fresh == SelectSeq(sorted, LAMBDA r : IsNew(r, existing_dates))
    IN  [i \in 1..Len(fresh) |-> NewRow(fresh[i])]

DuplicateCount(sorted, existing_dates) ==
    Cardinality({i \in 1..Len(sorted) : ~IsNew(sorted[i], existing_dates)})

\* the early return dropped: the write is issued with no rows
NothingToAppendIgnored(new_rows) == FALSE

\* line 259: if not new_rows
NothingToAppend(new_rows) == new_rows = <<>>

\* the failure of the write answered with None
WriteFailureSwallowed == "None"

\* lines 311-313: the handler of append_daily_data prints and re-raises
WriteFailureOutcome == "raise"

\* what a call did: read and lookup are "none" until the step is reached, writes
\* counts the values().append requests, fmt is the fate of the batchUpdate
IdleCall ==
    [ran |-> FALSE, records |-> <<>>, read |-> "none", lookup |-> "none",
     existing_dates |-> {}, new_rows |-> <<>>, duplicate_count |-> 0,
     writes |-> 0, fmt |-> "none", outcome |-> "idle"]

\* one call of append_daily_data on sheet s: [store, call]
\* readOk, writeOk, fmtOk: whether values().get, values().append and batchUpdate
\* succeed; lookup: what the sheet-id lookup meets
AppendRun(s, records, readOk, writeOk, lookup, fmtOk) ==
    LET existing_dates == ExistingDates(get_existing_data(s, readOk))
        sorted == SortBy(records, FALSE)
        new_rows == NewRows(sorted, existing_dates)
        duplicate_count == DuplicateCount(sorted, existing_dates)
        sheet_id == get_sheet_id(lookup)
        base == [IdleCall EXCEPT !.ran = TRUE, !.records = records]
        seen == [base EXCEPT !.read = IF readOk THEN "ok" ELSE "fail",
                             !.existing_dates = existing_dates,
                             !.new_rows = new_rows,
                             !.duplicate_count = duplicate_count]
        wrote == [seen EXCEPT !.writes = 1]
    IN  IF records = <<>>
        THEN [store |-> s, call |-> [base EXCEPT !.outcome = "None"]]
        ELSE IF NothingToAppend(new_rows)
        THEN [store |-> s, call |-> [seen EXCEPT !.outcome = "None"]]
        ELSE IF ~writeOk
        THEN [store |-> s, call |-> [wrote EXCEPT !.outcome = WriteFailureOutcome]]
        ELSE IF ~Truthy(sheet_id)
        THEN [store |-> SheetAppend(s, new_rows),
              call |-> [wrote EXCEPT !.lookup = lookup, !.outcome = "result"]]
        ELSE IF ~fmtOk
        THEN [store |-> SheetAppend(s, new_rows),
              call |-> [wrote EXCEPT !.lookup = lookup, !.fmt = "fail",
                                     !.outcome = "raise"]]
        ELSE [store |-> SheetDateFormat(SheetAppend(s, new_rows)),
              call |-> [wrote EXCEPT !.lookup = lookup, !.fmt = "ok",
                                     !.outcome = "result"]]

\* ---------------------------------------------------------------- main
\* the gate open on every day
should_collect_daily(now_day) == TRUE

should_collect_data(now_day) == now_day = 1

\* format_bytes not yet called on its own
NothingShown == [m |-> 0, e |-> 0, out |-> [val |-> 0, unit |-> "none"]]

IdleFetch ==
    [out |-> "idle", sent |-> TRUE, status |-> 200, errors |-> FALSE, missing |-> "none"]

\* the outcome of a fetch, with what the response was like
FetchOutcome(resp) ==
    [out |-> get_last_30days_analytics(resp).out,
     sent |-> resp.sent, status |-> resp.status, errors |-> resp.errors,
     missing |-> MissingField(resp)]

RECURSIVE AscendingRows(_)
AscendingRows(ds) ==
    IF ds = {} THEN <<>>
    ELSE LET m == CHOOSE d \in ds : \A e \in ds : d <= e
         IN  <<[a |-> UserEntered(DateStr(m)), total |-> format_bytes(0)]>>
             \o AscendingRows(ds \ {m})

\* a fresh sheet, or a sheet somebody prepared: header, then dated rows
InitStores ==
    {<<>>} \cup
    {<<StoreRow(headers)>> \o AscendingRows(ds) :
        ds \in {x \in SUBSET Dates : Cardinality(x) <= MaxFetch}}

Init ==
    /\ pc = "start"
    /\ day \in 1..DaysInMonth
    /\ locale \in {"ymd", "other"}
    /\ store \in InitStores
    /\ daily_data = <<>>
    /\ fetched = IdleFetch
    /\ call = IdleCall
    /\ trace = [sleeps |-> 0, cycles |-> 0, slept |-> 0]
    /\ shown = NothingShown

\* lines 341-354: ConfigHandler(config_path) returns
LoadConfig ==
    /\ pc = "start"
    /\ \E cfg \in ConfigStates : load_config(cfg) /\ pc' = "gate"
    /\ UNCHANGED <<day, locale, store, daily_data, fetched, call, trace, shown>>

\* lines 341-347, 410-412: ConfigHandler raises, caught by the outer handler
ConfigError ==
    /\ pc = "start"
    /\ \E cfg \in ConfigStates : ~load_config(cfg) /\ pc' = "cfgsleep"
    /\ UNCHANGED <<day, locale, store, daily_data, fetched, call, trace, shown>>

\* time.sleep(3600) at line 403 (end of a wake), line 408 (the loop's handler)
\* and line 413 (the outer handler)
SleepSeconds == 3600

\* the handler retrying after a minute
ErrSleepShort == SleepSeconds \div 60

ErrSleepSeconds == 3600
OuterSleepSeconds == 3600

NextDay(d) == IF d = DaysInMonth THEN 1 ELSE d + 1

\* line 413: the outer handler sleeps, then main returns
ConfigErrorSleep ==
    /\ pc = "cfgsleep"
    /\ pc' = "exited"
    /\ day' \in {day, NextDay(day)}
    /\ trace' = [trace EXCEPT !.sleeps = @ + 1, !.slept = @ + OuterSleepSeconds]
    /\ UNCHANGED <<locale, store, daily_data, fetched, call, shown>>

\* line 358: the scheduling gate
Gate ==
    /\ pc = "gate"
    /\ pc' = IF should_collect_data(day) THEN "fetch" ELSE "sleep"
    /\ trace' = [trace EXCEPT !.sleeps = 0, !.slept = 0]
    /\ daily_data' = <<>>
    /\ fetched' = IdleFetch
    /\ call' = IdleCall
    /\ UNCHANGED <<day, locale, store, shown>>

MainAfterFetch(out) ==
    IF out = "raise" THEN "errsleep" ELSE IF out = "None" THEN "sleep" ELSE "append"

\* lines 362-367: the fetch of one cycle
Fetch ==
    /\ pc = "fetch"
    /\ \E resp \in Responses :
        /\ fetched' = FetchOutcome(resp)
        /\ daily_data' = get_last_30days_analytics(resp).data
        /\ pc' = MainAfterFetch(get_last_30days_analytics(resp).out)
    /\ trace' = [trace EXCEPT !.cycles = @ + 1]
    /\ UNCHANGED <<day, locale, store, call, shown>>

\* lines 104-108: requests.post is called without a timeout; a request whose
\* peer never answers does not return and main stays inside it
FetchHangs ==
    /\ pc = "fetch"
    /\ pc' = "blocked"
    /\ UNCHANGED <<day, locale, store, daily_data, fetched, call, trace, shown>>

\* line 370: GoogleSheetHandler(config) raises "Google Sheets 인증 실패"
AuthFail ==
    /\ pc = "append"
    /\ pc' = "errsleep"
    /\ UNCHANGED <<day, locale, store, daily_data, fetched, call, trace, shown>>

MainAfterAppend(outcome) == IF outcome = "raise" THEN "errsleep" ELSE "sleep"

\* lines 370-400: the append of one cycle
AppendCycle ==
    /\ pc = "append"
    /\ \E readOk, writeOk, fmtOk \in BOOLEAN, lookup \in Lookups :
        LET run == AppendRun(store, daily_data, readOk, writeOk, lookup, fmtOk)
        IN  /\ store' = run.store
            /\ call' = run.call
            /\ daily_data' = SortBy(daily_data, FALSE)
            /\ pc' = MainAfterAppend(run.call.outcome)
    /\ UNCHANGED <<day, locale, fetched, trace, shown>>

\* line 403: the hourly sleep after a cycle or a skipped wake
Sleep ==
    /\ pc = "sleep"
    /\ pc' = "gate"
    /\ day' \in {day, NextDay(day)}
    /\ trace' = [sleeps |-> trace.sleeps + 1, cycles |-> 0,
                 slept |-> trace.slept + SleepSeconds]
    /\ UNCHANGED <<locale, store, daily_data, fetched, call, shown>>

\* the handler leaving the loop
LoopHandlerBreaks == "exited"

LoopHandlerTarget == "gate"

\* lines 405-408: the loop's handler sleeps and the loop goes on
ErrSleep ==
    /\ pc = "errsleep"
    /\ pc' = LoopHandlerTarget
    /\ day' \in {day, NextDay(day)}
    /\ trace' = [sleeps |-> trace.sleeps + 1, cycles |-> 0,
                 slept |-> trace.slept + ErrSleepSeconds]
    /\ UNCHANGED <<locale, store, daily_data, fetched, call, shown>>

Next ==
    \/ LoadConfig
    \/ ConfigError
    \/ ConfigErrorSleep
    \/ Gate
    \/ Fetch
    \/ FetchHangs
    \/ AuthFail
    \/ AppendCycle
    \/ Sleep
    \/ ErrSleep

\* main has no stop: the sheet can grow at every cycle. The behaviours checked
\* are those of main in which the sheet holds at most MaxRows rows.
WithinRows == Next /\ Len(store') <= MaxRows

Spec == Init /\ [][WithinRows]_vars

\* the process runs on: every step that can be taken is taken
FairSpec == Spec /\ WF_vars(WithinRows)

\* ---------------------------------------------------------------- the engine alone
RecordLists ==
    SeqsUpTo({[date |-> DateStr(d), bytes |-> Traffic(d)] : d \in Dates}, MaxRecs)

RECURSIVE PreparedRows(_)
PreparedRows(ds) ==
    IF ds = {} THEN {<<>>}
    ELSE LET m == CHOOSE d \in ds : \A e \in ds : d <= e
         IN  {<<[a |-> [type |-> "date", day |-> m, fmt |-> f],
                 total |-> format_bytes(Traffic(m))]>> \o rest :
                f \in {"auto", "ymd"}, rest \in PreparedRows(ds \ {m})}

\* a fresh sheet, or header and dated rows in either number format
CoreStores ==
    {<<>>} \cup
    UNION {{<<StoreRow(headers)>> \o rows : rows \in PreparedRows(ds)} :
            ds \in {x \in SUBSET Dates : Cardinality(x) <= MaxRecs}}

InitCore ==
    /\ pc = "core"
    /\ day = 1
    /\ locale \in {"ymd", "other"}
    /\ store \in CoreStores
    /\ daily_data = <<>>
    /\ fetched = IdleFetch
    /\ call = IdleCall
    /\ trace = [sleeps |-> 0, cycles |-> 0, slept |-> 0]
    /\ shown = NothingShown

\* a caller hands append_daily_data any list of records; the call sorts the
\* caller's list in place (line 232)
CoreCall ==
    /\ pc = "core"
    /\ \E records \in RecordLists, readOk, writeOk, fmtOk \in BOOLEAN, lookup \in Lookups :
        LET run == AppendRun(store, records, readOk, writeOk, lookup, fmtOk)
        IN  /\ store' = run.store
            /\ call' = run.call
            /\ daily_data' = SortBy(records, FALSE)
    /\ pc' = "again"
    /\ UNCHANGED <<day, locale, fetched, trace, shown>>

\* the caller calls again with the same records, and no request fails
CoreRepeat ==
    /\ pc = "again"
    /\ LET run == AppendRun(store, daily_data, TRUE, TRUE, "other", TRUE)
       IN  /\ store' = run.store
           /\ call' = run.call
    /\ pc' = "called"
    /\ UNCHANGED <<day, locale, daily_data, fetched, trace, shown>>

NextCore == CoreCall \/ CoreRepeat

CoreSpec == InitCore /\ [][NextCore]_vars

\* ---------------------------------------------------------------- format_bytes alone
\* byte counts m * 1024 ** e around every threshold of the ladder: zero, the
\* smallest and largest value of a unit, thresholds, halves and rounding ties
SmallCounts == {0, 1, 2, 10, 512, 999, 1000, 1023, 1024, 1025, 1029, 1536, 1792, 2000, 2047}
LargeCounts == {1048570, 1048571, 1048575, 1048576, 1048577, 1572864}
ByteCounts ==
    {[m |-> m, e |-> e] : m \in SmallCounts, e \in 0..(Len(Units) + 1)} \cup
    {[m |-> m, e |-> e] : m \in LargeCounts, e \in 0..Len(Units)}

InitBytes ==
    /\ pc = "bytes"
    /\ day = 1
    /\ locale = "ymd"
    /\ store = <<>>
    /\ daily_data = <<>>
    /\ fetched = IdleFetch
    /\ call = IdleCall
    /\ trace = [sleeps |-> 0, cycles |-> 0, slept |-> 0]
    /\ shown = NothingShown

\* a caller hands format_bytes any byte count
FormatCall ==
    /\ pc = "bytes"
    /\ \E n \in ByteCounts :
        shown' = [m |-> n.m, e |-> n.e, out |-> format_bytes_scaled(n.m, n.e)]
    /\ UNCHANGED <<pc, day, locale, store, daily_data, fetched, call, trace>>

NextBytes == FormatCall

BytesSpec == InitBytes /\ [][NextBytes]_vars

\* ================================================================ claims
\* a step that is one call of append_daily_data
CallStep == pc \in {"core", "again", "append"} /\ pc' # pc /\ call'.ran

\* indices of the records whose date is / is not in the existing-date set
Present(recs, ex) == {i \in 1..Len(recs) : recs[i].date \in ex}
Absent(recs, ex) == {i \in 1..Len(recs) : recs[i].date \notin ex}

\* the write of the call went through (the sheet-id lookup follows it)
WriteDone(c) == c.lookup # "none"

\* C1 (as claimed): every fetch-then-append run whose store read succeeds takes
\* a store without duplicate dates to a store without duplicate dates.
C1_NoDuplicateDates ==
    [][(CallStep /\ pc = "append" /\ call'.read # "fail" /\ NoDupDates(store))
        => NoDupDates(store')]_vars

\* C2 (as claimed): a second call with the same records, after a first call that
\* completed, appends nothing, leaves the store as the first call left it and
\* counts every record as a duplicate.
C2_Idempotent ==
    [][(CallStep /\ pc = "again" /\ call.read # "fail" /\ call.outcome # "raise"
            /\ call'.read # "fail")
        => /\ store' = store
           /\ call'.new_rows = <<>>
           /\ call'.duplicate_count = Len(call'.records)]_vars

\* C3: a call appends exactly the records whose date is absent from the
\* existing-date set, in one row each, and counts exactly the others as
\* duplicates; rows appended + duplicates skipped = len(records).
C3_AppendsExactlyAbsent ==
    [][(CallStep /\ call'.records # <<>>) =>
        LET recs == call'.records
            ex == call'.existing_dates
            rows == call'.new_rows
        IN  /\ call'.duplicate_count = Cardinality(Present(recs, ex))
            /\ Len(rows) = Cardinality(Absent(recs, ex))
            /\ Len(rows) + call'.duplicate_count = Len(recs)
            /\ \A d \in Dates :
                Cardinality({k \in 1..Len(rows) : rows[k].a.day = d})
                    = Cardinality({i \in Absent(recs, ex) : recs[i].date.day = d})
            /\ IF WriteDone(call')
               THEN /\ Len(store') = Len(store) + Len(rows)
                    /\ \A k \in 1..Len(rows) :
                        /\ store'[Len(store) + k].a.type = "date"
                        /\ store'[Len(store) + k].a.day = rows[k].a.day
               ELSE store' = store]_vars

C3_Witness ==
    /\ call.outcome = "result"
    /\ call.existing_dates = {DateStr(1), DateStr(2)}
    /\ {call.records[i].date : i \in 1..Len(call.records)} = {DateStr(1), DateStr(3)}
    /\ Len(call.new_rows) = 1
    /\ call.new_rows[1].a.day = 3
    /\ call.duplicate_count = 1
    /\ Len(store) = 4

\* C4: a call issues one row-appending write when at least one record is new,
\* and no write of any kind, leaving the store unchanged, when the input is
\* empty or every record is a duplicate.
C4_OneWriteOrNone ==
    [][CallStep =>
        IF Absent(call'.records, call'.existing_dates) # {}
        THEN call'.writes = 1
        ELSE /\ call'.writes = 0
             /\ call'.fmt = "none"
             /\ call'.lookup = "none"
             /\ call'.outcome = "None"
             /\ store' = store]_vars

C4_Witness ==
    /\ call.ran
    /\ Len(call.records) = 2
    /\ call.duplicate_count = 2
    /\ call.writes = 0
    /\ call.outcome = "None"

\* C5 (as claimed): when the date-format step fails after the write went
\* through (the sheet-id lookup fails, or the format request fails), the call
\* still returns the write confirmation.
C5_FormatFailureSwallowed ==
    (WriteDone(call) /\ (call.lookup = "error" \/ call.fmt = "fail"))
        => call.outcome = "result"

\* C6: when the read of the store fails, the call goes on as if the store were
\* empty: every record is new, none is a duplicate, all go into the one write,
\* and the call raises only if the write or the format request fails.
C6_ReadFailureMeansEmpty ==
    [][(CallStep /\ call'.read = "fail") =>
        /\ call'.existing_dates = {}
        /\ call'.duplicate_count = 0
        /\ Len(call'.new_rows) = Len(call'.records)
        /\ call'.writes = 1
        /\ (call'.outcome = "raise" => (~WriteDone(call') \/ call'.fmt = "fail"))
        /\ (WriteDone(call') => Len(store') = Len(store) + Len(call'.records))]_vars

C6_Witness ==
    /\ call.read = "fail"
    /\ call.outcome = "result"
    /\ Len(call.records) = 2
    /\ Len(call.new_rows) = 2
    /\ ~NoDupDates(store)

\* C7 (as claimed): a configuration error at startup does not end the process.
C7_ConfigErrorRetried == pc # "exited"

\* main is inside its while loop
InLoop == pc \in {"gate", "fetch", "blocked", "append", "sleep", "errsleep"}

\* C8 (as claimed): once the loop has started, a failure inside a cycle leads to
\* the loop's handler, which sleeps once and goes back to the gate; the loop
\* never ends, and the gate is evaluated again and again.
C8_LoopSurvivesFailures ==
    /\ [][/\ ((fetched'.out = "raise" /\ pc = "fetch") => pc' = "errsleep")
          /\ ((call'.outcome = "raise" /\ pc = "append") => pc' = "errsleep")
          /\ (pc = "errsleep" =>
                (pc' = "gate" /\ trace'.sleeps = trace.sleeps + 1))
          /\ (InLoop => InLoop')]_vars
    /\ [](InLoop => []<>(pc = "gate"))

\* C9: at a wake a cycle starts if and only if the day of the month is 1; on
\* another day nothing is fetched and the store is not touched; a wake runs at
\* most one cycle.
C9_GateOnDayOne ==
    [][/\ (pc = "gate" => ((pc' = "fetch") <=> (day = 1)))
       /\ (pc' = "fetch" => pc = "gate")
       /\ (pc' = "append" => pc = "fetch")
       /\ ((pc = "gate" /\ day # 1) =>
              (pc' = "sleep" /\ store' = store /\ ~call'.ran /\ fetched'.out = "idle"))
       /\ ((pc # "gate" /\ (store' # store \/ fetched' # fetched \/ call' # call))
              => (day = 1 /\ pc \in {"fetch", "append"}))
       /\ trace'.cycles <= 1]_vars

C9_Witness == pc = "fetch" /\ day = 1 /\ trace.sleeps = 0 /\ trace.cycles = 0

\* a response showing one of the four failure kinds of the fetch contract
FetchFailure(f) ==
    \/ ~f.sent
    \/ f.status \notin 200..299
    \/ f.errors
    \/ f.missing # "none"

\* C10 (as claimed): each of the four failure kinds (transport, non-2xx status,
\* API error list, missing nested field) is raised out of the fetch, and then
\* no append is attempted.
C10_AllFourRaise == FetchFailure(fetched) => (fetched.out = "raise" /\ ~call.ran)

\* C10 (amended): a transport failure, a status other than 200, an API error
\* list, a response without zones and a day group without its dimensions, sum
\* or uniq object are raised
\* out of the fetch; a zone without httpRequests1dGroups gives the empty result
\* and an absent metric counts as 0; when the fetch raises, no append is
\* attempted and the store is unchanged.
C10_FetchFailures ==
    [][/\ ((~fetched'.sent \/ fetched'.status # 200 \/ fetched'.errors
              \/ fetched'.missing \in {"zones", "dimensions", "sum", "uniq"})
            => fetched'.out = "raise")
       /\ ((fetched'.sent /\ fetched'.status = 200 /\ ~fetched'.errors
              /\ fetched'.missing = "groups") => fetched'.out = "None")
       /\ ((fetched'.sent /\ fetched'.status = 200 /\ ~fetched'.errors
              /\ fetched'.missing = "metric") => fetched'.out = "data")
       /\ (fetched'.out = "raise" =>
            (~call'.ran /\ store' = store /\ pc' \in {"errsleep", "gate"}))]_vars

C10_Witness == fetched.out = "raise" /\ fetched.errors /\ pc = "errsleep"

\* C11: when the batch write fails, the call raises to its caller, returns no
\* result, leaves the store as it was and issues neither the sheet-id lookup nor
\* the date-format request.
C11_WriteFailureRaises ==
    [][(CallStep /\ call'.writes = 1 /\ Len(store') = Len(store)) =>
        /\ call'.outcome = "raise"
        /\ call'.lookup = "none"
        /\ call'.fmt = "none"
        /\ store' = store]_vars

C11_Witness ==
    /\ call.writes = 1
    /\ call.new_rows # <<>>
    /\ call.outcome = "raise"
    /\ call.lookup = "none"
    /\ call.fmt = "none"

\* C12 (as claimed): at every call whose store read succeeds, row 1 of the store
\* is the header and never a data row, before the call and after it, and the
\* existing-date set equals the set of record dates of all data rows of the store.
C12_ExistingDatesAreStoreDates ==
    [][(CallStep /\ pc = "append" /\ call'.read # "fail") =>
        /\ \A i \in 1..Len(store) : IsData(store[i]) => i > 1
        /\ \A i \in 1..Len(store') : IsData(store'[i]) => i > 1
        /\ call'.existing_dates =
              {DateStr(store[i].a.day) : i \in {j \in 1..Len(store) : IsData(store[j])}}]_vars

\* C13: whatever the order of the incoming records, the new rows of one call are
\* in ascending date order, in the call and in the store, and they are the rows
\* of exactly the records, in the order given, whose date is not an existing date.
C13_NewRowsAscending ==
    [][(CallStep /\ call'.records # <<>>) =>
        LET recs == call'.records
            rows == call'.new_rows
            given == SelectSeq(recs, LAMBDA r : r.date \notin call'.existing_dates)
        IN  /\ \A k, l \in 1..Len(rows) : k < l => rows[k].a.day <= rows[l].a.day
            /\ Len(rows) = Len(given)
            /\ \A d \in Dates :
                Cardinality({k \in 1..Len(rows) : rows[k].a.day = d})
                    = Cardinality({i \in 1..Len(given) : given[i].date.day = d})
            /\ WriteDone(call') =>
                \A k, l \in (Len(store) + 1)..Len(store') :
                    k < l => store'[k].a.day <= store'[l].a.day]_vars

C13_Witness ==
    /\ call.outcome = "result"
    /\ Len(call.records) = 2
    /\ call.records[1].date = DateStr(3)
    /\ call.records[2].date = DateStr(1)
    /\ Len(call.new_rows) = 2
    /\ call.new_rows[1].a.day = 1
    /\ call.new_rows[2].a.day = 3
    /\ Len(store) >= 2
    /\ store[Len(store) - 1].a.day = 1
    /\ store[Len(store)].a.day = 3

\* the ladder of the claim, and the unit reached by dividing m * 1024 ** e by
\* 1024 until the value is below 1024, at most five times
Ladder == <<"B", "KB", "MB", "GB", "TB", "PB">>
AtLeastPow(m, e, j) == m # 0 /\ (e >= j \/ (j - e <= 3 /\ m >= Pow1024(j - e)))
LadderUnit(m, e) == Ladder[1 + Cardinality({j \in 1..5 : AtLeastPow(m, e, j)})]
Formatted == shown.out.unit # "none"
ShownIs(n, val, unit) ==
    (shown.m = n /\ shown.e = 0) => shown.out = [val |-> val, unit |-> unit]

\* C14 (as claimed): format_bytes labels every byte count with the unit of the
\* ladder, PB from 1024^5 on; 0 is in B, 1024 and 1536 in KB, 1024*1024 in MB;
\* and the scaled value printed is below 1024 unless the unit is PB.
C14_PrintedBelow1024 ==
    Formatted =>
        /\ shown.out.unit = LadderUnit(shown.m, shown.e)
        /\ ShownIs(0, 0, "B") /\ ShownIs(1024, 100, "KB")
        /\ ShownIs(1536, 150, "KB") /\ ShownIs(1024 * 1024, 100, "MB")
        /\ shown.out.unit # "PB" => shown.out.val < 1024 * 100

\* C14 (amended): the unit is that of the ladder and the examples hold; the
\* value is below 1024 before it is rounded to two decimals, so the printed
\* value is at most 1024.00 unless the unit is PB, and 1024.00 is printed for
\* the byte counts within 0.005 units below a threshold.
C14_UnitByLadder ==
    Formatted =>
        /\ shown.out.unit = LadderUnit(shown.m, shown.e)
        /\ ShownIs(0, 0, "B") /\ ShownIs(1024, 100, "KB")
        /\ ShownIs(1536, 150, "KB") /\ ShownIs(1024 * 1024, 100, "MB")
        /\ shown.out.unit # "PB" => shown.out.val <= 1024 * 100
        /\ (shown.m = 1048575 /\ shown.e <= 3) => shown.out.val = 1024 * 100

C14_Witness ==
    /\ shown.m = 1048575
    /\ shown.e = 0
    /\ shown.out = [val |-> 1024 * 100, unit |-> "KB"]

\* the values a row holds: the kind and date of its cell in column A and its
\* total; the number format of the cell is not a value
RowValues(r) == [type |-> r.a.type, day |-> r.a.day, total |-> r.total]

\* C15: every call is append-only: the rows of the store after the call begin
\* with the rows before it, each in its place with its values, whether the call
\* succeeds, finds only duplicates or fails.
C15_AppendOnly ==
    [][CallStep =>
        /\ Len(store') >= Len(store)
        /\ \A i \in 1..Len(store) : RowValues(store'[i]) = RowValues(store[i])]_vars

C15_Witness ==
    /\ call.outcome = "result"
    /\ call.fmt = "ok"
    /\ Len(call.new_rows) = 1
    /\ call.duplicate_count = 0
    /\ Len(store) = 3
    /\ store[1].a.type = "text"
    /\ store[2].a.day = 2
    /\ store[3].a.day = 1

\* C16: the gate is first evaluated before any sleep, and between one
\* evaluation of the gate and the next lies exactly one sleep, of 3600 seconds,
\* whether the wake was skipped, completed, found no data or failed.
C16_OneSleepBetweenGates ==
    [][/\ (pc = "start" /\ pc' = "gate") => (trace'.sleeps = 0 /\ trace'.slept = 0)
       /\ (pc = "gate" /\ pc' # pc) =>
            /\ trace.sleeps \in {0, 1}
            /\ trace'.sleeps = 0
            /\ pc' \in {"fetch", "sleep"}
       /\ (pc \in {"fetch", "append"} /\ pc' # pc) =>
            (trace'.sleeps = 0 /\ pc' \in {"append", "blocked", "sleep", "errsleep"})
       /\ (pc \in {"sleep", "errsleep"} /\ pc' # pc) =>
            /\ pc' = "gate"
            /\ trace.sleeps = 0
            /\ trace'.sleeps = 1
            /\ trace'.slept = 3600]_vars

C16_Witness ==
    /\ pc = "gate"
    /\ trace.sleeps = 1
    /\ trace.slept = 3600
    /\ fetched.out = "raise"

====
